---------------------------- MODULE Spec2Model ----------------------------
(***************************************************************************)
(* Model of grimoire's hierarchical chunker (internal/chunk/chunk.go) and  *)
(* of the relational store (internal/store).                               *)
(*                                                                         *)
(* Go strings are modelled as sequences of one-character strings, so that  *)
(* len(), strings.TrimSpace, strings.Split and the sentence splitter act   *)
(* on characters as the code does.  A nil pointer is the empty sequence    *)
(* and a non-nil pointer the one-element sequence holding the pointee.     *)
(***************************************************************************)
EXTENDS Integers, Sequences, FiniteSets, TLC

\* ------------------------------------------------------------------------
\* Bounds of the model
\* ------------------------------------------------------------------------
MaxSections == 2
MaxLevel == 3
MaxBudget == 2
MaxRows == 3
MaxChunks == 2
MaxRuns == 2

\* ------------------------------------------------------------------------
\* Strings
\* ------------------------------------------------------------------------
NL == "\n"
SP == " "

IsSpace(ch) == ch \in {" ", "\n", "\t", "\r"}

IsTerminator(ch) == ch \in {".", "!", "?"}

\* strings.TrimSpace: drop leading and trailing white space.  lead and
\* trail are the numbers of white-space characters at the two ends.
TrimSpace(s) ==
    IF \A k \in 1..Len(s) : IsSpace(s[k]) THEN <<>>
    ELSE LET lead  == CHOOSE n \in 0..(Len(s) - 1) :
                          /\ ~IsSpace(s[n + 1])
                          /\ \A m \in 1..n : IsSpace(s[m])
             trail == CHOOSE n \in 0..(Len(s) - 1) :
                          /\ ~IsSpace(s[Len(s) - n])
                          /\ \A m \in 1..n : IsSpace(s[Len(s) - m + 1])
         IN  SubSeq(s, lead + 1, Len(s) - trail)

\* strings.Split(text, "\n\n"): cut at each leftmost, non-overlapping
\* occurrence of two newlines; the pieces between are kept, empty or not.
RECURSIVE SplitBlank(_)
SplitBlank(text) ==
    LET hits == {k \in 1..(Len(text) - 1) : text[k] = NL /\ text[k + 1] = NL}
    IN  IF hits = {} THEN <<text>>
        ELSE LET p == CHOOSE k \in hits : \A m \in hits : k <= m
             IN  <<SubSeq(text, 1, p - 1)>> \o SplitBlank(SubSeq(text, p + 2, Len(text)))

\* The loop of splitIntoParagraphs: trim each part, keep the non-empty ones.
RECURSIVE KeepNonEmpty(_)
KeepNonEmpty(parts) ==
    IF parts = <<>> THEN <<>>
    ELSE LET p == TrimSpace(Head(parts))
         IN  (IF p # <<>> THEN <<p>> ELSE <<>>) \o KeepNonEmpty(Tail(parts))

splitIntoParagraphs(text) == KeepNonEmpty(SplitBlank(text))

\* The rune loop of splitIntoSentences from position k on: current collects
\* the runes up to and including the next terminator and is then appended,
\* trimmed, to the sentences; what is left after the last terminator is
\* appended when it is not blank.
RECURSIVE SentenceLoop(_, _, _)
SentenceLoop(text, k, sentences) ==
    LET ends == {m \in k..Len(text) : IsTerminator(text[m])}
    IN  IF ends = {}
        THEN IF TrimSpace(SubSeq(text, k, Len(text))) # <<>>
             THEN Append(sentences, TrimSpace(SubSeq(text, k, Len(text))))
             ELSE sentences
        ELSE LET p == CHOOSE m \in ends : \A n \in ends : m <= n
             IN  SentenceLoop(text, p + 1,
                              Append(sentences, TrimSpace(SubSeq(text, k, p))))

\* The rune loop without the append after it: what follows the last
\* terminator is left out.
splitIntoSentencesTerminated(text) ==
    SelectSeq(SentenceLoop(text, 1, <<>>),
              LAMBDA sent : IsTerminator(sent[Len(sent)]))

splitIntoSentences(text) == SentenceLoop(text, 1, <<>>)

\* Chunker.CountTokens: about four characters per token, rounded up.
CountTokens(text) == (Len(text) + 3) \div 4


\* ------------------------------------------------------------------------
\* Chunker inputs
\* ------------------------------------------------------------------------
\* len(intro) < 500: the longest intro that is still copied into the summary
\* is one character shorter than this.
SummaryIntroLimit == 500

Letters(n) == [k \in 1..n |-> "a"]

\* Document titles and heading texts.
Titles == {<<"T">>}
HeadingTexts == {<<"T">>, <<"H">>}

\* Contents of a section under a heading: empty; one short sentence wrapped
\* in white space; two paragraphs around a blank line, the second of four
\* sentences.
Contents ==
    { <<>>,
      <<" ", "a", "a", "a", ".", "\n">>,
      <<"a", "a", "!", "\n", "\n",
        "a", "a", "a", ".", " ", "a", "?", " ", "a", ".", " ", "a", "\n", "\n">> }

\* The root section of a document without headings holds the whole
\* document: the contents above, or a run of SummaryIntroLimit letters.
RootContents == Contents \cup {Letters(SummaryIntroLimit)}

\* parse.Heading (Level, Text) and parse.Section (Heading *Heading, Content).
Headings == [Level : 0..MaxLevel, Text : HeadingTexts]

Sections ==
    [Heading : {<<>>}, Content : RootContents]
    \cup [Heading : {<<h>> : h \in Headings}, Content : Contents]

\* parse.Document, reduced to the fields Chunk reads.
Documents ==
    [Title : Titles,
     Sections : UNION {[1..n -> Sections] : n \in 0..MaxSections}]

\* ------------------------------------------------------------------------
\* Chunker
\* ------------------------------------------------------------------------
\* chunk.Chunk; ParentIndex is <<>> for nil and <<i>> for a pointer to i.
MkChunk(level, title, content, tokens, parent, crumbs) ==
    [Level |-> level, Title |-> title, Content |-> content,
     TokenCount |-> tokens, ParentIndex |-> parent, Breadcrumbs |-> crumbs]

\* Content of the summary chunk: the title, plus the first section's
\* trimmed content when that is non-empty and short.
SummaryContent(d) ==
    IF Len(d.Sections) > 0 /\ d.Sections[1].Content # <<>>
    THEN LET intro == TrimSpace(d.Sections[1].Content)
         IN  IF intro # <<>> /\ Len(intro) < SummaryIntroLimit
             THEN d.Title \o <<NL, NL>> \o intro
             ELSE d.Title
    ELSE d.Title

\* SummaryChunk with the summary given &summaryIdx as its own parent.
SummaryChunkSelfParent(d) ==
    MkChunk("summary", d.Title, SummaryContent(d),
            CountTokens(SummaryContent(d)), <<0>>, <<d.Title>>)

SummaryChunk(d) ==
    MkChunk("summary", d.Title, SummaryContent(d),
            CountTokens(SummaryContent(d)), <<>>, <<d.Title>>)

\* for len(headingStack) > level { headingStack = headingStack[:len-1] }
PopStack(stack, level) ==
    IF Len(stack) > level THEN SubSeq(stack, 1, level) ELSE stack

\* The stack update goes out of range: slicing an empty stack when the
\* level is negative, or writing headingStack[level-1] with level-1 outside
\* the popped stack.
StackPanics(stack, level) ==
    \/ level < 0
    \/ /\ ~(Len(PopStack(stack, level)) < level)
       /\ (level - 1) \notin 0..(Len(PopStack(stack, level)) - 1)

\* UpdateStack without the else branch: an entry at the heading's depth is
\* kept instead of replaced.
UpdateStackNoReplace(stack, level, text) ==
    LET popped == PopStack(stack, level)
    IN  IF Len(popped) < level
        THEN Append(popped, text)
        ELSE popped

\* The heading stack after a heading of the given level and text.
UpdateStack(stack, level, text) ==
    LET popped == PopStack(stack, level)
    IN  IF Len(popped) < level
        THEN Append(popped, text)
        ELSE [popped EXCEPT ![level] = text]

\* MustFlush measuring the buffer instead of the buffer plus the sentence.
MustFlushOnBuffer(test, current, maxTok) ==
    CountTokens(current) > maxTok /\ current # <<>>

\* The buffer is flushed before the next sentence is added.
MustFlush(test, current, maxTok) ==
    CountTokens(test) > maxTok /\ current # <<>>

\* The sentence loop of an over-budget paragraph, from sentence k on:
\* the (Content, TokenCount) pairs of the paragraph chunks it emits.
RECURSIVE AccumulateSentences(_, _, _, _, _)
AccumulateSentences(sentences, k, current, out, maxTok) ==
    IF k > Len(sentences)
    THEN IF TrimSpace(current) # <<>>
         THEN Append(out, [Content |-> TrimSpace(current),
                           TokenCount |-> CountTokens(current)])
         ELSE out
    ELSE LET sent == sentences[k]
             test == current \o <<SP>> \o sent
         IN  IF MustFlush(test, current, maxTok)
             THEN AccumulateSentences(sentences, k + 1, sent,
                      Append(out, [Content |-> TrimSpace(current),
                                   TokenCount |-> CountTokens(current)]),
                      maxTok)
             ELSE AccumulateSentences(sentences, k + 1, test, out, maxTok)

\* The (Content, TokenCount) pairs emitted for one non-empty paragraph.
ParagraphPieces(para, maxTok) ==
    IF CountTokens(para) > maxTok
    THEN AccumulateSentences(splitIntoSentences(para), 1, <<>>, <<>>, maxTok)
    ELSE <<[Content |-> para, TokenCount |-> CountTokens(para)]>>

\* The paragraph loop over an over-budget section.
RECURSIVE ParagraphLoop(_, _)
ParagraphLoop(paragraphs, maxTok) ==
    IF paragraphs = <<>> THEN <<>>
    ELSE LET para == TrimSpace(Head(paragraphs))
         IN  (IF para = <<>> THEN <<>> ELSE ParagraphPieces(para, maxTok))
             \o ParagraphLoop(Tail(paragraphs), maxTok)

\* FitsBudget with a strict comparison.
FitsBudgetStrict(tokens, maxTok) == tokens < maxTok

\* The section fits in one chunk.
FitsBudget(tokens, maxTok) == tokens <= maxTok

\* &summaryIdx, with summaryIdx := 0.
SectionParent == <<0>>

\* ParagraphParent with len(chunks) taken after the header was appended.
ParagraphParentAfterAppend(sectionIdx) == <<sectionIdx + 1>>

\* &sectionIdx, with sectionIdx := len(chunks) before the header is appended.
ParagraphParent(sectionIdx) == <<sectionIdx>>

\* The chunks appended for one headed section; sectionIdx is len(chunks)
\* when the section is reached.
SectionChunks(section, crumbs, sectionIdx, maxTok) ==
    LET text    == section.Heading[1].Text
        content == TrimSpace(section.Content)
        tokens  == CountTokens(content)
    IN  IF FitsBudget(tokens, maxTok)
        THEN <<MkChunk("section", text, content, tokens, SectionParent, crumbs)>>
        ELSE LET pieces == ParagraphLoop(splitIntoParagraphs(content), maxTok)
             IN  <<MkChunk("section", text, text, CountTokens(text),
                           SectionParent, crumbs)>>
                 \o [k \in 1..Len(pieces) |->
                        MkChunk("paragraph", text, pieces[k].Content,
                                pieces[k].TokenCount,
                                ParagraphParent(sectionIdx), crumbs)]

\* ------------------------------------------------------------------------
\* State
\* ------------------------------------------------------------------------
VARIABLES
    doc,          \* the *parse.Document passed to Chunk
    maxTokens,    \* Chunker.maxTokens
    chunks,       \* the chunks slice of the running call
    origin,       \* per chunk, the position in doc.Sections it was made from
                  \* (0 for the summary); history only, not read by the code
    headingStack, \* headingStack of the running call
    cursor,       \* position in doc.Sections of the next loop iteration
    pc,           \* "idle", "loop", "done" (returned) or "panic"
    languages,    \* rows of table languages, in rowid order
    sources,      \* rows of table sources, in rowid order
    documents,    \* rows of table documents, in rowid order
    call,         \* the last store call: operation, arguments, error or not
    chunkRows,    \* rows of table chunks, in rowid order (committed)
    fts,          \* entries of the lexical index chunks_fts (committed)
    vec,          \* rows of the vector table chunks_vec
    txn,          \* the write statement in flight on chunks, or NoTxn
    search,       \* the outcome of the last search call on the store as
                  \* it is, NoSearch when there is none
    ingest        \* the ingest driver: position, run, per-document state

chunkVars == <<doc, maxTokens, chunks, origin, headingStack, cursor, pc>>

catalogVars == <<languages, sources, documents>>

indexVars == <<chunkRows, fts, vec, txn>>

storeVars == <<languages, sources, documents, call,
               chunkRows, fts, vec, txn, search, ingest>>

vars == <<doc, maxTokens, chunks, origin, headingStack, cursor, pc,
          languages, sources, documents, call,
          chunkRows, fts, vec, txn, search, ingest>>

\* ------------------------------------------------------------------------
\* Chunker.Chunk, one action per loop iteration
\* ------------------------------------------------------------------------
\* Lines 32-55: the summary chunk and the initial heading stack.
ChunkSummary ==
    /\ pc = "idle"
    /\ chunks' = <<SummaryChunk(doc)>>
    /\ origin' = <<0>>
    /\ headingStack' = <<doc.Title>>
    /\ cursor' = 1
    /\ pc' = "loop"
    /\ UNCHANGED <<doc, maxTokens, storeVars>>

\* Lines 59-61: a section without a heading is skipped.
ChunkSkipSection ==
    /\ pc = "loop"
    /\ cursor <= Len(doc.Sections)
    /\ doc.Sections[cursor].Heading = <<>>
    /\ cursor' = cursor + 1
    /\ UNCHANGED <<doc, maxTokens, chunks, origin, headingStack, pc, storeVars>>

\* The loop is at a headed section whose level the stack update can take.
AtHeadedSection ==
    /\ pc = "loop"
    /\ cursor <= Len(doc.Sections)
    /\ doc.Sections[cursor].Heading # <<>>
    /\ ~StackPanics(headingStack, doc.Sections[cursor].Heading[1].Level)

\* Lines 63-161: a headed section updates the stack and appends its chunks.
ChunkSection ==
    /\ AtHeadedSection
    /\ LET section == doc.Sections[cursor]
           heading == section.Heading[1]
           stack == UpdateStack(headingStack, heading.Level, heading.Text)
           new   == SectionChunks(section, stack, Len(chunks), maxTokens)
       IN  /\ headingStack' = stack
           /\ chunks' = chunks \o new
           /\ origin' = origin \o [k \in 1..Len(new) |-> cursor]
    /\ cursor' = cursor + 1
    /\ UNCHANGED <<doc, maxTokens, pc, storeVars>>

\* Lines 65-72 going out of range: the call panics and returns nothing.
ChunkSectionPanic ==
    /\ pc = "loop"
    /\ cursor <= Len(doc.Sections)
    /\ doc.Sections[cursor].Heading # <<>>
    /\ StackPanics(headingStack, doc.Sections[cursor].Heading[1].Level)
    /\ pc' = "panic"
    /\ UNCHANGED <<doc, maxTokens, chunks, origin, headingStack, cursor, storeVars>>

\* Line 164: return chunks, nil.
ChunkReturn ==
    /\ pc = "loop"
    /\ cursor > Len(doc.Sections)
    /\ pc' = "done"
    /\ UNCHANGED <<doc, maxTokens, chunks, origin, headingStack, cursor, storeVars>>

\* ------------------------------------------------------------------------
\* Store: tables languages, sources and documents
\* ------------------------------------------------------------------------
LanguageNames == {"go", "rust"}
DisplayNames == {"Go"}
SourceNames == {"effective-go", "wiki"}
SourceTypes == {"git"}
SourceURLs == {"https://example.org/repo.git"}
DocumentPaths == {"README.md", "doc/guide.md"}
DocumentTitles == {"Guide"}

\* Row ids passed as foreign keys; a row with that id may or may not exist.
RowIDs == 1..2

NoCall == [op |-> "none", key |-> <<>>, err |-> FALSE]

\* INTEGER PRIMARY KEY: the new rowid is one more than the largest rowid
\* (rows are kept in rowid order and never deleted).
NextRowID(rows) == IF rows = <<>> THEN 1 ELSE rows[Len(rows)].ID + 1

\* name TEXT NOT NULL UNIQUE
LanguageConflict(rows, name) ==
    \E k \in 1..Len(rows) : rows[k].Name = name

\* SourceConflict with the constraint declared on (id, name).
SourceConflictOnID(rows, languageID, name) ==
    \E k \in 1..Len(rows) :
        rows[k].ID = languageID /\ rows[k].Name = name

\* UNIQUE(language_id, name)
SourceConflict(rows, languageID, name) ==
    \E k \in 1..Len(rows) :
        rows[k].LanguageID = languageID /\ rows[k].Name = name

\* UNIQUE(source_id, path)
DocumentConflict(rows, sourceID, path) ==
    \E k \in 1..Len(rows) :
        rows[k].SourceID = sourceID /\ rows[k].Path = path

\* Store.CreateLanguage: one INSERT; a constraint failure is returned as an
\* error and the statement changes nothing.
CreateLanguage ==
    \E name \in LanguageNames, displayName \in DisplayNames :
        IF LanguageConflict(languages, name)
        THEN /\ call' = [op |-> "CreateLanguage", key |-> <<name>>, err |-> TRUE]
             /\ UNCHANGED <<languages, sources, documents, chunkVars,
                         indexVars, search, ingest>>
        ELSE /\ Len(languages) < MaxRows
             /\ languages' = Append(languages,
                    [ID |-> NextRowID(languages), Name |-> name,
                     DisplayName |-> displayName])
             /\ call' = [op |-> "CreateLanguage", key |-> <<name>>, err |-> FALSE]
             /\ UNCHANGED <<sources, documents, chunkVars,
                         indexVars, search, ingest>>

\* Store.CreateSource with the given arguments.  The connection never
\* enables foreign-key enforcement, so REFERENCES languages(id) is not
\* checked by the INSERT.
CreateSourceCall(languageID, name, sourceType, url) ==
    IF SourceConflict(sources, languageID, name)
    THEN /\ call' = [op |-> "CreateSource", key |-> <<languageID, name>>,
                     err |-> TRUE]
         /\ UNCHANGED sources
    ELSE /\ sources' = Append(sources,
                [ID |-> NextRowID(sources), LanguageID |-> languageID,
                 Name |-> name, Type |-> sourceType, URL |-> url])
         /\ call' = [op |-> "CreateSource", key |-> <<languageID, name>>,
                     err |-> FALSE]

\* Store.CreateSource.
CreateSource ==
    \E languageID \in RowIDs, name \in SourceNames,
       sourceType \in SourceTypes, url \in SourceURLs :
        /\ SourceConflict(sources, languageID, name) \/ Len(sources) < MaxRows
        /\ CreateSourceCall(languageID, name, sourceType, url)
        /\ UNCHANGED <<languages, documents, chunkVars,
                       indexVars, search, ingest>>

\* Store.CreateDocument with the given arguments.
CreateDocumentCall(sourceID, path, title) ==
    IF DocumentConflict(documents, sourceID, path)
    THEN /\ call' = [op |-> "CreateDocument", key |-> <<sourceID, path>>,
                     err |-> TRUE]
         /\ UNCHANGED documents
    ELSE /\ documents' = Append(documents,
                [ID |-> NextRowID(documents), SourceID |-> sourceID,
                 Path |-> path, Title |-> title])
         /\ call' = [op |-> "CreateDocument", key |-> <<sourceID, path>>,
                     err |-> FALSE]

\* Store.CreateDocument.
CreateDocument ==
    \E sourceID \in RowIDs, path \in DocumentPaths, title \in DocumentTitles :
        /\ DocumentConflict(documents, sourceID, path)
               \/ Len(documents) < MaxRows
        /\ CreateDocumentCall(sourceID, path, title)
        /\ UNCHANGED <<languages, sources, chunkVars,
                       indexVars, search, ingest>>

\* ------------------------------------------------------------------------
\* Store: the lookups
\* ------------------------------------------------------------------------
\* A Go error value is the set of the sentinel errors errors.Is finds in its
\* chain; the nil error is the empty set.
NilError == {}

\* sql.ErrNoRows, as Scan returns it for a query without row.
ErrNoRows == {"sql.ErrNoRows"}

\* fmt.Errorf("language %q: %w", name, ErrNotFound): only ErrNotFound is
\* wrapped.
WrapNotFound(err) == {"ErrNotFound"}

\* return nil, err
ReturnRaw(err) == err

\* errors.Is(err, target)
ErrorsIs(err, target) == target \in err

\* SELECT ... FROM languages WHERE name = ?
LanguageRows(rows, name) == SelectSeq(rows, LAMBDA r : r.Name = name)

\* Store.GetLanguage.
GetLanguage ==
    \E name \in LanguageNames :
        /\ LET found == LanguageRows(languages, name)
               err == IF found = <<>> THEN ErrNoRows ELSE NilError
           IN  call' = IF ErrorsIs(err, "sql.ErrNoRows")
                       THEN [op |-> "GetLanguage", key |-> <<name>>,
                             err |-> TRUE, chain |-> WrapNotFound(err),
                             row |-> <<>>]
                       ELSE [op |-> "GetLanguage", key |-> <<name>>,
                             err |-> FALSE, chain |-> NilError,
                             row |-> <<found[1]>>]
        /\ UNCHANGED <<catalogVars, chunkVars, indexVars, search, ingest>>

\* Store.GetDocumentByPath.
GetDocumentByPathCall ==
    \E sourceID \in RowIDs, path \in DocumentPaths :
        /\ LET found == SelectSeq(documents,
                             LAMBDA r : r.SourceID = sourceID /\ r.Path = path)
               err == IF found = <<>> THEN ErrNoRows ELSE NilError
           IN  call' = IF err # NilError
                       THEN [op |-> "GetDocumentByPath",
                             key |-> <<sourceID, path>>, err |-> TRUE,
                             chain |-> ReturnRaw(err),
                             row |-> <<>>]
                       ELSE [op |-> "GetDocumentByPath",
                             key |-> <<sourceID, path>>, err |-> FALSE,
                             chain |-> NilError, row |-> <<found[1]>>]
        /\ UNCHANGED <<catalogVars, chunkVars, indexVars, search, ingest>>

\* ------------------------------------------------------------------------
\* Store: table chunks, lexical index chunks_fts, vector table chunks_vec
\* ------------------------------------------------------------------------
ChunkIDs == 1..MaxChunks
ChunkTitles == {<<"t">>}
ChunkContents == {<<"a">>, <<"b">>}
QueryTexts == {<<"a">>, <<"t">>}
Limits == 1..2

\* languageID arguments of the searches: 0 is "all languages".
LanguageFilters == 0..2

\* embedding FLOAT[1024]
EmbeddingDim == 1024

\* The vector (x, 0, ..., 0) of EmbeddingDim coordinates.
Embedding(x) == [Dim |-> EmbeddingDim, X |-> x]

Embeddings == {Embedding(0), Embedding(1)}

\* A vector of three coordinates.
ShortEmbedding == [Dim |-> 3, X |-> 0]
QueryVecs == {Embedding(0)}

\* A text the lexical index cannot parse: an unterminated string.
UnterminatedText == <<"\"">>

\* The arguments of SearchChunksHybrid: also a query vector of three
\* coordinates, an empty text, a text that is no query, and limit 0.
HybridQueryVecs == QueryVecs \cup {ShortEmbedding}
HybridTexts == QueryTexts \cup {<<>>, UnterminatedText}
HybridLimits == 0..2

NoTxn == [kind |-> "none"]

NoSearch ==
    [op |-> "none", queryVec |-> <<>>, text |-> <<>>, languageID |-> 0,
     limit |-> 0, inflight |-> NoTxn, rows |-> {}, index |-> {},
     vector |-> <<>>, lexical |-> <<>>, out |-> <<>>]

SearchCall == [op |-> "Search", key |-> <<>>, err |-> FALSE]

SearchError == [op |-> "Search", key |-> <<>>, err |-> TRUE]

\* INSERT INTO chunks (...) VALUES (?, ?, ?, ?, ?, ?): the row gets the next
\* rowid.  No constraint of the table can reject it: the NOT NULL columns
\* are bound to Go values and REFERENCES is not enforced.
InsertChunkRow(rows, documentID, parentChunkID, level, title, content, tokenCount) ==
    Append(rows, [ID |-> NextRowID(rows), DocumentID |-> documentID,
                  ParentChunkID |-> parentChunkID, Level |-> level,
                  Title |-> title, Content |-> content,
                  TokenCount |-> tokenCount])

\* What the index holds for a chunk row: its rowid and the two indexed
\* columns.
FtsEntry(row) ==
    [rowid |-> row.ID, title |-> row.Title, content |-> row.Content]

\* TRIGGER chunks_ai AFTER INSERT ON chunks.
chunks_ai(index, new) == index \cup {FtsEntry(new)}

\* The delete trigger left out: the index keeps the entry.
chunks_ad_missing(index, old) == index

\* TRIGGER chunks_ad AFTER DELETE ON chunks: the 'delete' command with the
\* old values.
chunks_ad(index, old) == index \ {FtsEntry(old)}

\* TRIGGER chunks_au AFTER UPDATE ON chunks: delete the old entry, insert
\* the new one.
chunks_au(index, old, new) == chunks_ai(chunks_ad(index, old), new)

\* float32ToBytes: four bytes per coordinate.
float32ToBytes(embedding) ==
    [Bytes |-> 4 * embedding.Dim, X |-> embedding.X]

\* chunk_id INTEGER PRIMARY KEY of chunks_vec.
EmbeddingConflict(rows, chunkID) == \E v \in rows : v.ChunkID = chunkID

\* The column takes a blob of any length.
BadDimensionNever(blob) == FALSE

\* embedding FLOAT[1024]: a blob of another length is rejected.
BadDimension(blob) == blob.Bytes # 4 * EmbeddingDim

\* Store.CreateChunk with the given arguments, as one step: the INSERT and
\* the trigger it fires run in one statement.
CreateChunkCall(documentID, parentChunkID, level, title, content, tokenCount) ==
    /\ txn = NoTxn
    /\ LET rows == InsertChunkRow(chunkRows, documentID, parentChunkID,
                                  level, title, content, tokenCount)
       IN  /\ chunkRows' = rows
           /\ fts' = chunks_ai(fts, rows[Len(rows)])
           /\ call' = [op |-> "CreateChunk", key |-> <<rows[Len(rows)].ID>>,
                       err |-> FALSE]
    /\ UNCHANGED <<catalogVars, vec, txn, chunkVars>>

\* Store.StoreEmbedding with the given arguments: one INSERT into
\* chunks_vec.  The virtual table has no reference to chunks; it rejects a
\* second row for a chunk_id.  The call is recorded with len(embedding).
StoreEmbeddingCall(chunkID, embedding) ==
    /\ txn = NoTxn
    /\ LET blob == float32ToBytes(embedding)
       IN  IF EmbeddingConflict(vec, chunkID) \/ BadDimension(blob)
           THEN /\ call' = [op |-> "StoreEmbedding", key |-> <<embedding.Dim>>,
                            err |-> TRUE]
                /\ UNCHANGED vec
           ELSE /\ vec' = vec \cup {[ChunkID |-> chunkID, Bytes |-> blob.Bytes,
                                     X |-> blob.X]}
                /\ call' = [op |-> "StoreEmbedding", key |-> <<embedding.Dim>>,
                            err |-> FALSE]
    /\ UNCHANGED <<catalogVars, chunkRows, fts, txn, chunkVars>>

\* CreateChunk and StoreEmbedding as called to fill a store before it is
\* searched.
CreateChunk ==
    \E documentID \in RowIDs, title \in ChunkTitles,
       content \in ChunkContents :
        /\ search = NoSearch
        /\ Len(chunkRows) < MaxChunks
        /\ CreateChunkCall(documentID, <<>>, "section", title, content, 1)
        /\ UNCHANGED <<search, ingest>>

StoreEmbedding ==
    \E chunkID \in {chunkRows[k].ID : k \in 1..Len(chunkRows)},
       embedding \in Embeddings \cup {ShortEmbedding} :
        /\ search = NoSearch
        /\ StoreEmbeddingCall(chunkID, embedding)
        /\ UNCHANGED <<search, ingest>>

\* ------------------------------------------------------------------------
\* Store: the searches
\* ------------------------------------------------------------------------
\* The tokens of a text in the lexical index: the maximal runs of
\* characters that are not separators.
Terms(text) ==
    {SubSeq(text, p[1], p[2]) :
        p \in {q \in (1..Len(text)) \X (1..Len(text)) :
                  /\ q[1] <= q[2]
                  /\ \A m \in q[1]..q[2] : ~IsSpace(text[m])
                  /\ q[1] = 1 \/ IsSpace(text[q[1] - 1])
                  /\ q[2] = Len(text) \/ IsSpace(text[q[2] + 1])}}

\* MATCH restricted to the content column.
MatchesContentOnly(entry, query) == Terms(query) \subseteq Terms(entry.content)

\* chunks_fts MATCH ?: every token of the query occurs in the title or in
\* the content of the entry.
Matches(entry, query) ==
    Terms(query) \subseteq (Terms(entry.title) \cup Terms(entry.content))

Take(seq, n) == SubSeq(seq, 1, IF n < Len(seq) THEN n ELSE Len(seq))

\* The sequences that list every element of S once.
Listings(S) ==
    {o \in [1..Cardinality(S) -> S] :
        \A a, b \in 1..Cardinality(S) : a # b => o[a] # o[b]}

\* ORDER BY / sort: the listings of S in which no element comes before one
\* that is strictly smaller; elements that compare equal come in any order.
\* less is the set of the pairs <<a, b>> with a strictly smaller than b.
Orderings(S, less) ==
    {o \in Listings(S) :
        \A a, b \in 1..Cardinality(S) : a < b => <<o[b], o[a]>> \notin less}

\* JOIN documents d ON c.document_id = d.id JOIN sources s ON
\* d.source_id = s.id: the language ids the joined rows of a chunk carry.
JoinedLanguages(row) ==
    {sources[s].LanguageID :
        s \in {t \in 1..Len(sources) :
                  \E d \in 1..Len(documents) :
                      /\ documents[d].ID = row.DocumentID
                      /\ documents[d].SourceID = sources[t].ID}}

\* The filtered form without its WHERE clause.
PassesFilterAlways(row, languageID) == TRUE

\* The two forms of each query: without the joins when languageID is 0,
\* with the joins and WHERE language_id = ? otherwise.
PassesFilter(row, languageID) ==
    languageID = 0 \/ languageID \in JoinedLanguages(row)

\* A query reads the working copy of the statement in flight.
VisibleUncommitted ==
    IF txn.kind = "none" THEN [rows |-> chunkRows, index |-> fts]
    ELSE [rows |-> txn.rows, index |-> txn.index]

\* What a query reads: the committed table and index.  A write statement
\* and the trigger it fires become visible together when the statement
\* ends.
Visible == [rows |-> chunkRows, index |-> fts]

ChunkRowSet == {Visible.rows[k] : k \in 1..Len(Visible.rows)}

\* The rows SearchChunksFTS can return: the chunk rows joined with a
\* matching index entry, in rank order, cut by LIMIT.  The rank (bm25) of
\* the matching rows is not computed: any order of them is possible.
FTSResults(query, languageID, limit) ==
    LET hits == {row \in ChunkRowSet :
                    /\ \E e \in Visible.index :
                           e.rowid = row.ID /\ Matches(e, query)
                    /\ PassesFilter(row, languageID)}
    IN  {Take(o, limit) : o \in Listings(hits)}

\* L2 distance of two vectors that differ in the first coordinate only.
Distance(v, queryBlob) ==
    IF v.X >= queryBlob.X THEN v.X - queryBlob.X ELSE queryBlob.X - v.X

\* embedding MATCH ? AND k = ?: the k rows of chunks_vec nearest to the
\* query, nearest first; rows at the same distance come in any order.
KNN(queryBlob, k) ==
    LET Nearer(a, b) == Distance(a, queryBlob) < Distance(b, queryBlob)
    IN  {Take(o, k) :
            o \in Orderings(vec, {p \in vec \X vec : Nearer(p[1], p[2])})}

\* The rows of a vector query: the nearest k rows of chunks_vec joined
\* with chunks (and, under a filter, with documents and sources), ordered
\* by distance.
VectorRows(queryBlob, languageID, k) ==
    LET Joined(v) == \E row \in ChunkRowSet :
                         row.ID = v.ChunkID /\ PassesFilter(row, languageID)
    IN  {SelectSeq(top, Joined) : top \in KNN(queryBlob, k)}

\* SearchChunksVector: k = limit in both forms.
VectorResults(queryVec, languageID, limit) ==
    VectorRows(float32ToBytes(queryVec), languageID, limit)

\* The oversampling left out: limit rows asked for in both forms.
WithScoreKNoOversampling(languageID, limit) == limit

\* SearchChunksVectorWithScore: k = limit without filter, limit*2 with.
WithScoreK(languageID, limit) ==
    IF languageID = 0 THEN limit ELSE limit * 2

\* SearchChunksVectorWithScore: a row is appended, then the loop stops when
\* len(results) >= limit.
WithScoreResults(queryVec, languageID, limit) ==
    {Take(rows, IF limit < 1 THEN 1 ELSE limit) :
        rows \in VectorRows(float32ToBytes(queryVec), languageID,
                            WithScoreK(languageID, limit))}

\* The results as the callers get them: chunk id and, for the scored
\* searches, the distance as a fraction <<numerator, denominator>>.
ChunksOut(rows) ==
    [k \in 1..Len(rows) |-> [ID |-> rows[k].ID, Distance |-> <<>>]]

VectorOut(rows) ==
    [k \in 1..Len(rows) |-> [ID |-> rows[k].ChunkID, Distance |-> <<>>]]

WithScoreOut(rows, queryVec) ==
    [k \in 1..Len(rows) |->
        [ID |-> rows[k].ChunkID,
         Distance |-> <<Distance(rows[k], float32ToBytes(queryVec)), 1>>]]

\* Fractions.
RatAdd(x, y) == <<x[1] * y[2] + y[1] * x[2], x[2] * y[2]>>

RatLess(x, y) == x[1] * y[2] < y[1] * x[2]

RatInverse(x) == <<x[2], x[1]>>

\* const k = 60.0
RRFk == 60

\* The index taken for the rank: 1.0 / (k + i).
RRFTermZeroBased(i) == <<1, RRFk + i>>

\* The term of the entry at index i of a list: 1.0 / (k + float64(i+1)).
RRFTerm(i) == <<1, RRFk + i + 1>>

\* The terms of the two lists not added: the larger one is the score.
FusedScoreBest(id, vectorResults, ftsChunks) ==
    LET at(list) == {i \in 1..Len(list) : list[i].ID = id}
        term(list) == IF at(list) = {} THEN <<0, 1>>
                      ELSE RRFTerm((CHOOSE i \in at(list) : TRUE) - 1)
    IN  IF RatLess(term(vectorResults), term(ftsChunks))
        THEN term(ftsChunks) ELSE term(vectorResults)

\* scores[id] after the two loops.  A list returned by a query holds a
\* chunk id at most once.
FusedScore(id, vectorResults, ftsChunks) ==
    LET at(list) == {i \in 1..Len(list) : list[i].ID = id}
        term(list) == IF at(list) = {} THEN <<0, 1>>
                      ELSE RRFTerm((CHOOSE i \in at(list) : TRUE) - 1)
    IN  RatAdd(term(vectorResults), term(ftsChunks))

\* The sorted results returned whole.
LimitResultsNever(results, limit) == results

\* if len(results) > limit { results = results[:limit] }
LimitResults(results, limit) == Take(results, limit)

\* The results of the fusion: one result per id of the scores map, with
\* Distance 1.0 / score, sorted by Distance and cut to limit.  The map is
\* ranged over in an unspecified order and the sort keeps that order for
\* equal distances.
FuseResults(vectorResults, ftsChunks, limit) ==
    LET ids == {vectorResults[i].ID : i \in 1..Len(vectorResults)}
                   \cup {ftsChunks[i].ID : i \in 1..Len(ftsChunks)}
        Result(id) ==
            [ID |-> id,
             Distance |-> RatInverse(FusedScore(id, vectorResults, ftsChunks))]
        results == {Result(id) : id \in ids}
        less == {p \in results \X results :
                    RatLess(p[1].Distance, p[2].Distance)}
    IN  {LimitResults(o, limit) : o \in Orderings(results, less)}

\* A client makes a hybrid search, or repeats the one it has just made.
AskHybrid(queryVec, text, languageID, limit) ==
    \/ search = NoSearch
    \/ /\ search.op = "SearchChunksHybrid"
       /\ search.queryVec = queryVec
       /\ search.text = text
       /\ search.languageID = languageID
       /\ search.limit = limit

\* The database answers a repeated query on an unchanged store as it did
\* before: answers are the lists the query can return, earlier is the one
\* it returned to the call that is repeated.
SameAnswer(answers, earlier) ==
    IF search = NoSearch THEN answers ELSE {earlier}

\* The ids a search can see in the table and in the index.
ReadRows == {row.ID : row \in ChunkRowSet}

ReadIndex == {e.rowid : e \in Visible.index}

Returned(op, queryVec, text, languageID, limit, vector, lexical, out) ==
    /\ search' = [op |-> op, queryVec |-> queryVec, text |-> text,
                  languageID |-> languageID, limit |-> limit,
                  inflight |-> txn, rows |-> ReadRows, index |-> ReadIndex,
                  vector |-> vector, lexical |-> lexical, out |-> out]
    /\ UNCHANGED <<catalogVars, indexVars, ingest, chunkVars>>

\* return results, nil
Answer(op, queryVec, text, languageID, limit, vector, lexical, out) ==
    /\ Returned(op, queryVec, text, languageID, limit, vector, lexical, out)
    /\ call' = SearchCall

\* return out, fmt.Errorf(...)
Fail(op, queryVec, text, languageID, limit, vector, lexical, out) ==
    /\ Returned(op, queryVec, text, languageID, limit, vector, lexical, out)
    /\ call' = SearchError

\* embedding MATCH ? with a blob that is not a vector of the column's
\* dimension: the query fails.
VectorQueryFails(queryBlob) == queryBlob.Bytes # 4 * EmbeddingDim

\* chunks_fts MATCH ? with a text that is no query of the index (here: a
\* string that is opened and never closed): the query fails.
MatchFails(query) ==
    Cardinality({k \in 1..Len(query) : query[k] = "\""}) % 2 = 1

\* Store.SearchChunksFTS.
SearchChunksFTS ==
    \E query \in QueryTexts, languageID \in LanguageFilters, limit \in Limits :
        /\ search = NoSearch
        /\ \E rows \in FTSResults(query, languageID, limit) :
               Answer("SearchChunksFTS", <<>>, query, languageID, limit,
                      <<>>, ChunksOut(rows), ChunksOut(rows))

\* Store.SearchChunksVector.
SearchChunksVector ==
    \E queryVec \in QueryVecs, languageID \in LanguageFilters,
       limit \in Limits :
        /\ search = NoSearch
        /\ \E rows \in VectorResults(queryVec, languageID, limit) :
               Answer("SearchChunksVector", queryVec, <<>>, languageID, limit,
                      VectorOut(rows), <<>>, VectorOut(rows))

\* Store.SearchChunksVectorWithScore.
SearchChunksVectorWithScore ==
    \E queryVec \in QueryVecs, languageID \in LanguageFilters,
       limit \in Limits :
        /\ search = NoSearch
        /\ \E rows \in WithScoreResults(queryVec, languageID, limit) :
               Answer("SearchChunksVectorWithScore", queryVec, <<>>,
                      languageID, limit, WithScoreOut(rows, queryVec), <<>>,
                      WithScoreOut(rows, queryVec))

\* The early return left out: every call goes through the fusion.
HybridSkipsFusionNever(textQuery) == FALSE

\* if textQuery == "" { return vectorResults, nil }
HybridSkipsFusion(textQuery) == textQuery = <<>>

\* The vector results handed back when the lexical search has failed.
OnLexicalErrorFallBack(vectorResults) == vectorResults

\* return nil, fmt.Errorf("fts search: %w", err)
OnLexicalError(vectorResults) == <<>>

\* Store.SearchChunksHybrid.
SearchChunksHybrid ==
    \E queryVec \in HybridQueryVecs, textQuery \in HybridTexts,
       languageID \in LanguageFilters, limit \in HybridLimits :
        /\ AskHybrid(queryVec, textQuery, languageID, limit)
        /\ IF VectorQueryFails(float32ToBytes(queryVec))
           THEN Fail("SearchChunksHybrid", queryVec, textQuery, languageID,
                     limit, <<>>, <<>>, <<>>)
           ELSE
           \E vectorResults \in
                  SameAnswer({WithScoreOut(rows, queryVec) :
                                 rows \in WithScoreResults(queryVec,
                                                           languageID, limit)},
                             search.vector) :
               IF HybridSkipsFusion(textQuery)
               THEN Answer("SearchChunksHybrid", queryVec, textQuery,
                           languageID, limit, vectorResults, <<>>,
                           vectorResults)
               ELSE IF MatchFails(textQuery)
               THEN Fail("SearchChunksHybrid", queryVec, textQuery,
                         languageID, limit, vectorResults, <<>>,
                         OnLexicalError(vectorResults))
               ELSE \E ftsChunks \in
                        SameAnswer({ChunksOut(hits) :
                                       hits \in FTSResults(textQuery,
                                                           languageID, limit)},
                                   search.lexical) :
                    \E out \in FuseResults(vectorResults, ftsChunks, limit) :
                        Answer("SearchChunksHybrid", queryVec, textQuery,
                               languageID, limit, vectorResults, ftsChunks,
                               out)

\* ------------------------------------------------------------------------
\* Store: a write statement on chunks, step by step, beside a reader
\* ------------------------------------------------------------------------
\* The statement works on its own copy of the table and of the index; the
\* trigger of the table runs inside the statement, after the row change.
BeginStatement(kind, rows, old, new) ==
    /\ txn = NoTxn
    /\ txn' = [kind |-> kind, rows |-> rows, index |-> fts,
               old |-> old, new |-> new, fired |-> FALSE]
    /\ UNCHANGED <<catalogVars, chunkRows, fts, vec, call, search, ingest,
                   chunkVars>>

\* The INSERT of Store.CreateChunk.
InsertChunk ==
    \E documentID \in RowIDs, title \in ChunkTitles,
       content \in ChunkContents :
        /\ NextRowID(chunkRows) \in ChunkIDs
        /\ LET rows == InsertChunkRow(chunkRows, documentID, <<>>, "section",
                                      title, content, 1)
           IN  BeginStatement("insert", rows, <<>>, <<rows[Len(rows)]>>)

\* UPDATE chunks SET content = ? WHERE id = ?, the statement the update
\* trigger is declared for.
UpdateChunk ==
    \E k \in 1..Len(chunkRows), content \in ChunkContents :
        LET new == [chunkRows[k] EXCEPT !.Content = content]
        IN  BeginStatement("update", [chunkRows EXCEPT ![k] = new],
                           <<chunkRows[k]>>, <<new>>)

\* DELETE FROM chunks WHERE id = ?, the statement the delete trigger is
\* declared for.
DeleteChunk ==
    \E k \in 1..Len(chunkRows) :
        BeginStatement("delete",
                       SubSeq(chunkRows, 1, k - 1)
                           \o SubSeq(chunkRows, k + 1, Len(chunkRows)),
                       <<chunkRows[k]>>, <<>>)

\* The trigger of the statement in flight.
FireTrigger ==
    /\ txn.kind # "none"
    /\ ~txn.fired
    /\ txn' = [txn EXCEPT
                 !.fired = TRUE,
                 !.index =
                     CASE txn.kind = "insert" -> chunks_ai(@, txn.new[1])
                       [] txn.kind = "delete" -> chunks_ad(@, txn.old[1])
                       [] txn.kind = "update" ->
                              chunks_au(@, txn.old[1], txn.new[1])]
    /\ UNCHANGED <<catalogVars, chunkRows, fts, vec, call, search, ingest,
                   chunkVars>>

\* The statement ends: its changes to the table and to the index replace
\* the committed ones in one step.
CommitStatement ==
    /\ txn.kind # "none"
    /\ txn.fired
    /\ chunkRows' = txn.rows
    /\ fts' = txn.index
    /\ txn' = NoTxn
    /\ search' = NoSearch
    /\ UNCHANGED <<catalogVars, vec, call, ingest, chunkVars>>

\* ------------------------------------------------------------------------
\* The ingest command (cmd/grimoire/main.go), for one source of a pack
\* ------------------------------------------------------------------------
\* chunk.NewChunker(512)
IngestBudget == 512

\* if len(strings.TrimSpace(c.Content)) < 10 { continue }
MinEmbedLength == 10

\* The files fetcher.ListFiles returns for the source, the same in every
\* run.
IngestFiles == <<"README.md", "doc/guide.md">>

\* A section content over the budget of the command: a paragraph of 4 *
\* IngestBudget letters, which fits a chunk, and a paragraph of one
\* sentence.
LongContent ==
    Letters(4 * IngestBudget) \o <<"\n", "\n", "a", "a", "a", "a", "a", "a",
                                   "a", "a", "a", ".">>

\* What parse.Parse makes of a file: a document without sections, one with
\* two headed sections, or one with a section over the budget.
IngestDocuments ==
    { [Title |-> <<"T">>, Sections |-> <<>>],
      [Title |-> <<"T">>,
       Sections |-> << [Heading |-> <<[Level |-> 1, Text |-> <<"H">>]>>,
                       Content |-> LongContent] >>],
      [Title |-> <<"T">>,
       Sections |->
           << [Heading |-> <<[Level |-> 1, Text |-> <<"H">>]>>,
               Content |-> <<"a", "a", "!", "\n", "\n", "a", "a", "a", ".",
                             " ", "a", "?", " ", "a", ".", " ", "a",
                             "\n", "\n">>],
              [Heading |-> <<[Level |-> 2, Text |-> <<"T">>]>>,
               Content |-> <<" ", "a", "a", "a", ".", "\n">>] >>] }

\* The vector embedClient.Embed returns.
IngestEmbeddings == {Embedding(1)}

\* The language and the source of the pack.
IngestLanguageID == 1
IngestSourceName == "effective-go"

IngestIdle ==
    [pc |-> "idle", run |-> 0, srcID |-> 0, file |-> 0, docID |-> 0,
     i |-> 0, chunkIDs |-> <<>>, lastID |-> 0, existed |-> FALSE]

\* Store.GetDocumentByPath: the row as a pointer, nil with an error when
\* the query has no row.
GetDocumentByPath(rows, sourceID, path) ==
    LET found == {k \in 1..Len(rows) :
                     rows[k].SourceID = sourceID /\ rows[k].Path = path}
    IN  IF found = {} THEN <<>> ELSE <<rows[CHOOSE k \in found : TRUE]>>

\* The driver goes on to chunk a document it found already stored.
SkipExistingNever == FALSE

\* fmt.Printf("(already indexed, skipping)"); continue
SkipExisting == TRUE

\* The command is started.
IngestStart ==
    /\ ingest.pc = "idle"
    /\ ingest.run < MaxRuns
    /\ ingest' = [IngestIdle EXCEPT !.pc = "source", !.run = ingest.run + 1]
    /\ UNCHANGED <<catalogVars, call, indexVars, search, chunkVars>>

\* "Create or get source": CreateSource, and on an error the source of that
\* name among ListSources.
IngestSource ==
    /\ ingest.pc = "source"
    /\ CreateSourceCall(IngestLanguageID, IngestSourceName, "git",
                        "https://example.org/repo.git")
    /\ LET src == CHOOSE k \in 1..Len(sources') :
                      /\ sources'[k].LanguageID = IngestLanguageID
                      /\ sources'[k].Name = IngestSourceName
       IN  ingest' = [ingest EXCEPT !.pc = "file", !.srcID = sources'[src].ID]
    /\ UNCHANGED <<languages, documents, indexVars, search, chunkVars>>

\* The next file is read and parsed; the chunker has not run for it.
ParseFile(d) ==
    /\ doc' = d
    /\ chunks' = <<>>
    /\ origin' = <<>>
    /\ headingStack' = <<>>
    /\ cursor' = 0
    /\ pc' = "idle"
    /\ UNCHANGED maxTokens

\* "Create or get document": CreateDocument; on an error
\* GetDocumentByPath, and the file is left alone whether the row is found
\* or not.
IngestDocument ==
    /\ ingest.pc = "file"
    /\ ingest.file < Len(IngestFiles)
    /\ \E d \in IngestDocuments :
           /\ ParseFile(d)
           /\ CreateDocumentCall(ingest.srcID, IngestFiles[ingest.file + 1],
                                 d.Title)
    /\ LET path == IngestFiles[ingest.file + 1]
           existed == DocumentConflict(documents, ingest.srcID, path)
           dbDoc == GetDocumentByPath(documents', ingest.srcID, path)
       IN  ingest' =
               [ingest EXCEPT
                  !.file = ingest.file + 1,
                  !.existed = existed,
                  !.docID = dbDoc[1].ID,
                  !.pc = IF call'.err /\ SkipExisting THEN "file" ELSE "chunk"]
    /\ UNCHANGED <<languages, sources, indexVars, search>>

\* CreateDocument fails though no row has the key (the database cannot be
\* written), GetDocumentByPath finds nothing: the file is left alone.
IngestDocumentError ==
    /\ ingest.pc = "file"
    /\ ingest.file < Len(IngestFiles)
    /\ ~DocumentConflict(documents, ingest.srcID, IngestFiles[ingest.file + 1])
    /\ \E d \in IngestDocuments : ParseFile(d)
    /\ call' = [op |-> "CreateDocument",
                key |-> <<ingest.srcID, IngestFiles[ingest.file + 1]>>,
                err |-> TRUE]
    /\ ingest' = [ingest EXCEPT !.file = ingest.file + 1, !.existed = FALSE]
    /\ UNCHANGED <<catalogVars, indexVars, search>>

\* chunker.Chunk(doc) has returned: the loop over its chunks begins.
IngestChunked ==
    /\ ingest.pc = "chunk"
    /\ pc = "done"
    /\ ingest' = [ingest EXCEPT !.pc = "store", !.i = 0, !.chunkIDs = <<>>]
    /\ UNCHANGED <<catalogVars, call, indexVars, search, chunkVars>>

\* The position of the parent in the chunk list taken for its stored id.
IngestParentIDByPosition(c, chunkIDs) ==
    IF c.ParentIndex # <<>> /\ c.ParentIndex[1] \in DOMAIN chunkIDs
    THEN <<c.ParentIndex[1] + 1>>
    ELSE <<>>

\* parentID of the loop: the stored id of the parent chunk, nil when the
\* chunk has no parent or the parent has no entry in chunkIDs.
IngestParentID(c, chunkIDs) ==
    IF c.ParentIndex # <<>> /\ c.ParentIndex[1] \in DOMAIN chunkIDs
    THEN <<chunkIDs[c.ParentIndex[1]]>>
    ELSE <<>>

\* The loop body up to chunkIDs[i] = dbChunk.ID; a chunk with short content
\* gets no embedding.
IngestCreateChunk ==
    /\ ingest.pc = "store"
    /\ ingest.i < Len(chunks)
    /\ LET c == chunks[ingest.i + 1]
           id == NextRowID(chunkRows)
       IN  /\ CreateChunkCall(ingest.docID,
                              IngestParentID(c, ingest.chunkIDs),
                              c.Level, c.Title, c.Content, c.TokenCount)
           /\ ingest' =
                  [ingest EXCEPT
                     !.chunkIDs = (ingest.i :> id) @@ ingest.chunkIDs,
                     !.lastID = id,
                     !.i = IF Len(TrimSpace(c.Content)) < MinEmbedLength
                           THEN ingest.i + 1 ELSE ingest.i,
                     !.pc = IF Len(TrimSpace(c.Content)) < MinEmbedLength
                            THEN "store" ELSE "embed"]
    /\ UNCHANGED search

\* The error returned to the caller of the command: the run ends.
AbortOnChunkError(st) == [st EXCEPT !.pc = "idle"]

\* fmt.Printf("Error ..."); continue, in the loop over the chunks.
SkipChunk(st) == [st EXCEPT !.pc = "store", !.i = st.i + 1]

\* CreateChunk returns an error: the chunk is left out.
IngestCreateChunkError ==
    /\ ingest.pc = "store"
    /\ ingest.i < Len(chunks)
    /\ call' = [op |-> "CreateChunk", key |-> <<>>, err |-> TRUE]
    /\ ingest' = SkipChunk(ingest)
    /\ UNCHANGED <<catalogVars, indexVars, search, chunkVars>>

\* embedClient.Embed or StoreEmbedding returns an error (the service or the
\* database cannot be reached): the chunk stays without embedding.
IngestEmbedError ==
    /\ ingest.pc = "embed"
    /\ ingest' = SkipChunk(ingest)
    /\ UNCHANGED <<catalogVars, call, indexVars, search, chunkVars>>

\* StoreEmbedding for the chunk just created; its error is reported and
\* the loop goes on.
IngestStoreEmbedding ==
    /\ ingest.pc = "embed"
    /\ \E embedding \in IngestEmbeddings :
           StoreEmbeddingCall(ingest.lastID, embedding)
    /\ ingest' = [ingest EXCEPT !.pc = "store", !.i = ingest.i + 1]
    /\ UNCHANGED search

\* The loop over the chunks ends.
IngestFileDone ==
    /\ ingest.pc = "store"
    /\ ingest.i = Len(chunks)
    /\ ingest' = [ingest EXCEPT !.pc = "file"]
    /\ UNCHANGED <<catalogVars, call, indexVars, search, chunkVars>>

\* "Ingest complete!": the command returns nil.
IngestReturn ==
    /\ ingest.pc = "file"
    /\ ingest.file = Len(IngestFiles)
    /\ ingest' = [ingest EXCEPT !.pc = "idle"]
    /\ UNCHANGED <<catalogVars, call, indexVars, search, chunkVars>>

\* ------------------------------------------------------------------------
\* Specifications
\* ------------------------------------------------------------------------
\* No chunk, no embedding, no statement in flight, no search made.
IndexEmpty ==
    /\ chunkRows = <<>>
    /\ fts = {}
    /\ vec = {}
    /\ txn = NoTxn
    /\ search = NoSearch

\* store.New on an empty database: the schema is created, no rows.
StoreEmpty ==
    /\ languages = <<>>
    /\ sources = <<>>
    /\ documents = <<>>
    /\ call = NoCall
    /\ IndexEmpty
    /\ ingest = IngestIdle

\* NewChunker(maxTokens) and a document, before Chunk is called.
ChunkerIdle ==
    /\ chunks = <<>>
    /\ origin = <<>>
    /\ headingStack = <<>>
    /\ cursor = 0
    /\ pc = "idle"

\* Chunking of any document of the input set under any budget.
Init ==
    /\ doc \in Documents
    /\ maxTokens \in 1..MaxBudget
    /\ ChunkerIdle
    /\ StoreEmpty

Next ==
    \/ ChunkSummary
    \/ ChunkSkipSection
    \/ ChunkSection
    \/ ChunkSectionPanic
    \/ ChunkReturn

Spec == Init /\ [][Next]_vars

\* Any sequence of create calls on a fresh store; the chunker is not run.
StoreInit ==
    /\ doc = [Title |-> <<"T">>, Sections |-> <<>>]
    /\ maxTokens = 1
    /\ ChunkerIdle
    /\ StoreEmpty

StoreNext ==
    \/ CreateLanguage
    \/ CreateSource
    \/ CreateDocument

StoreSpec == StoreInit /\ [][StoreNext]_vars

\* The create calls and the lookups on one store.
LookupNext ==
    \/ CreateLanguage
    \/ CreateSource
    \/ CreateDocument
    \/ GetLanguage
    \/ GetDocumentByPathCall

LookupSpec == StoreInit /\ [][LookupNext]_vars

\* A store that holds two languages, a source of each and a document of
\* each source, as six create calls leave it.
Catalog ==
    /\ languages =
           << [ID |-> 1, Name |-> "go", DisplayName |-> "Go"],
              [ID |-> 2, Name |-> "rust", DisplayName |-> "Go"] >>
    /\ sources =
           << [ID |-> 1, LanguageID |-> 1, Name |-> "effective-go",
               Type |-> "git", URL |-> "https://example.org/repo.git"],
              [ID |-> 2, LanguageID |-> 2, Name |-> "wiki",
               Type |-> "git", URL |-> "https://example.org/repo.git"] >>
    /\ documents =
           << [ID |-> 1, SourceID |-> 1, Path |-> "README.md",
               Title |-> "Guide"],
              [ID |-> 2, SourceID |-> 2, Path |-> "README.md",
               Title |-> "Guide"] >>
    /\ call = NoCall

CatalogInit ==
    /\ doc = [Title |-> <<"T">>, Sections |-> <<>>]
    /\ maxTokens = 1
    /\ ChunkerIdle
    /\ Catalog
    /\ IndexEmpty
    /\ ingest = IngestIdle

\* Chunks and embeddings are stored, then the store is searched.
SearchNext ==
    \/ CreateChunk
    \/ StoreEmbedding
    \/ SearchChunksFTS
    \/ SearchChunksVector
    \/ SearchChunksVectorWithScore
    \/ SearchChunksHybrid

SearchSpec == CatalogInit /\ [][SearchNext]_vars

\* Write statements on chunks, step by step, with lexical searches in
\* between the steps.
IndexNext ==
    \/ InsertChunk
    \/ UpdateChunk
    \/ DeleteChunk
    \/ FireTrigger
    \/ CommitStatement
    \/ SearchChunksFTS

IndexSpec == CatalogInit /\ [][IndexNext]_vars

\* Runs of the ingest command, one after the other, on a store that holds
\* the language of the pack.
IngestInit ==
    /\ doc = [Title |-> <<"T">>, Sections |-> <<>>]
    /\ maxTokens = IngestBudget
    /\ ChunkerIdle
    /\ languages = << [ID |-> 1, Name |-> "go", DisplayName |-> "Go"] >>
    /\ sources = <<>>
    /\ documents = <<>>
    /\ call = NoCall
    /\ IndexEmpty
    /\ ingest = IngestIdle

\* The chunker runs when the driver has called it.
IngestChunking ==
    /\ ingest.pc = "chunk"
    /\ \/ ChunkSummary
       \/ ChunkSkipSection
       \/ ChunkSection
       \/ ChunkReturn

IngestNext ==
    \/ IngestStart
    \/ IngestSource
    \/ IngestDocument
    \/ IngestDocumentError
    \/ IngestChunking
    \/ IngestChunked
    \/ IngestCreateChunk
    \/ IngestCreateChunkError
    \/ IngestEmbedError
    \/ IngestStoreEmbedding
    \/ IngestFileDone
    \/ IngestReturn

IngestSpec == IngestInit /\ [][IngestNext]_vars

\* ------------------------------------------------------------------------
\* Properties of the chunker (checked under Spec)
\* ------------------------------------------------------------------------
\* The shape of a document built by parse.Parse from non-empty content:
\* one section per heading, each with a heading of level 1..6, or, when the
\* content has no heading, a single root section without heading that
\* holds the content.
ParsedNonEmpty(d) ==
    \/ /\ Len(d.Sections) >= 1
       /\ \A k \in 1..Len(d.Sections) :
              /\ d.Sections[k].Heading # <<>>
              /\ d.Sections[k].Heading[1].Level \in 1..6
    \/ /\ Len(d.Sections) = 1
       /\ d.Sections[1].Heading = <<>>
       /\ d.Sections[1].Content # <<>>

Last(s) == s[Len(s)]

\* The positions (1-based) of the chunks made from section i.
ChunksOf(i) == {k \in 1..Len(chunks) : origin[k] = i}

\* C1: for a parsed document with non-empty content Chunk does not fail and
\* returns at least one chunk; the first chunk is the summary, titled with
\* the document title and without parent, and no later chunk is a summary.
C1_SummaryFirst ==
    ParsedNonEmpty(doc) =>
        /\ pc # "panic"
        /\ pc = "done" =>
              /\ Len(chunks) >= 1
              /\ chunks[1].Level = "summary"
              /\ chunks[1].Title = doc.Title
              /\ chunks[1].ParentIndex = <<>>
              /\ \A k \in 2..Len(chunks) : chunks[k].Level # "summary"

C1_Witness ==
    /\ pc = "done"
    /\ ParsedNonEmpty(doc)
    /\ Len(chunks) >= 3
    /\ chunks[1].Level = "summary"

\* C2: every chunk returned by Chunk has a breadcrumb list that starts with
\* the document title.
C2_BreadcrumbsStartWithTitle ==
    pc = "done" =>
        \A k \in 1..Len(chunks) :
            /\ chunks[k].Breadcrumbs # <<>>
            /\ chunks[k].Breadcrumbs[1] = doc.Title

\* C3: for a document without headings and with non-empty content Chunk
\* returns, besides the summary, a section chunk that holds the content.
C3_HeadlessContentChunk ==
    ( /\ pc = "done"
      /\ Len(doc.Sections) = 1
      /\ doc.Sections[1].Heading = <<>>
      /\ doc.Sections[1].Content # <<>> )
    => \E k \in 2..Len(chunks) :
           /\ chunks[k].Level = "section"
           /\ chunks[k].Content \in
                  {doc.Sections[1].Content, TrimSpace(doc.Sections[1].Content)}

\* C4: the TokenCount of every returned chunk is CountTokens of the chunk's
\* stored Content.
C4_TokenCountOfContent ==
    pc = "done" =>
        \A k \in 1..Len(chunks) :
            chunks[k].TokenCount = CountTokens(chunks[k].Content)

\* C5: every chunk but the summary has a parent that lies before it; the
\* parent of a section chunk is the summary at index 0, the parent of a
\* paragraph chunk is the section chunk of the same heading.
C5_ParentTree ==
    \A k \in 2..Len(chunks) :
        /\ Len(chunks[k].ParentIndex) = 1
        /\ chunks[k].ParentIndex[1] \in 0..(k - 2)
        /\ chunks[k].Level \in {"section", "paragraph"}
        /\ chunks[k].Level = "section" => chunks[k].ParentIndex[1] = 0
        /\ chunks[k].Level = "paragraph" =>
               LET parent == chunks[k].ParentIndex[1] + 1
               IN  /\ chunks[parent].Level = "section"
                   /\ chunks[parent].Title = chunks[k].Title
                   /\ origin[parent] = origin[k]

C5_Witness ==
    /\ pc = "done"
    /\ \E k \in 3..Len(chunks) :
           /\ chunks[k].Level = "paragraph"
           /\ chunks[k].ParentIndex[1] >= 2

\* C6: a paragraph chunk whose TokenCount is above maxTokens holds exactly
\* one sentence; two or more accumulated sentences are never emitted with
\* more than maxTokens tokens.
C6_ParagraphBudget ==
    \A k \in 1..Len(chunks) :
        chunks[k].Level = "paragraph" =>
            \/ chunks[k].TokenCount <= maxTokens
            \/ Len(splitIntoSentences(chunks[k].Content)) = 1

C6_Witness ==
    /\ pc = "done"
    /\ \E k \in 1..Len(chunks) :
           /\ chunks[k].Level = "paragraph"
           /\ chunks[k].TokenCount > maxTokens
    /\ \E k \in 1..Len(chunks) :
           /\ chunks[k].Level = "paragraph"
           /\ Len(splitIntoSentences(chunks[k].Content)) >= 2

\* C7: Chunk returns normally, with at least the summary chunk, for every
\* document value, whatever the heading levels.
C7_NeverFails ==
    /\ pc # "panic"
    /\ pc = "done" => Len(chunks) >= 1

\* C8: the breadcrumbs of every section and paragraph chunk end with the
\* heading text of the section the chunk was made from.
C8_BreadcrumbsEndWithHeading ==
    \A k \in 2..Len(chunks) :
        /\ chunks[k].Breadcrumbs # <<>>
        /\ Last(chunks[k].Breadcrumbs) = doc.Sections[origin[k]].Heading[1].Text

\* A deeper heading that skips a level, followed by a shallower one with
\* another text.
C8_Witness ==
    /\ pc = "done"
    /\ Len(doc.Sections) = 2
    /\ Len(chunks) >= 3
    /\ doc.Sections[1].Heading # <<>>
    /\ doc.Sections[2].Heading # <<>>
    /\ doc.Sections[1].Heading[1].Level = 3
    /\ doc.Sections[2].Heading[1].Level = 2
    /\ doc.Sections[1].Heading[1].Text # doc.Sections[2].Heading[1].Text

\* C9: a headed section whose trimmed content is within the budget yields
\* exactly one chunk: a section chunk titled with the heading text, holding
\* the trimmed content, counted as the whole content, child of the summary.
\* Stated for every section the loop has gone through (i < cursor).
C9_FittingSectionOneChunk ==
    \A i \in 1..Len(doc.Sections) :
        ( /\ i < cursor
          /\ doc.Sections[i].Heading # <<>>
          /\ CountTokens(TrimSpace(doc.Sections[i].Content)) <= maxTokens )
        => /\ Cardinality(ChunksOf(i)) = 1
           /\ \A k \in ChunksOf(i) :
                  /\ chunks[k].Level = "section"
                  /\ chunks[k].Title = doc.Sections[i].Heading[1].Text
                  /\ chunks[k].Content = TrimSpace(doc.Sections[i].Content)
                  /\ chunks[k].TokenCount =
                         CountTokens(TrimSpace(doc.Sections[i].Content))
                  /\ chunks[k].ParentIndex = <<0>>

C9_Witness ==
    /\ pc = "done"
    /\ \E i \in 1..Len(doc.Sections) :
           /\ doc.Sections[i].Heading # <<>>
           /\ TrimSpace(doc.Sections[i].Content) # <<>>
           /\ CountTokens(TrimSpace(doc.Sections[i].Content)) = maxTokens
           /\ Cardinality(ChunksOf(i)) = 1

\* ------------------------------------------------------------------------
\* Properties of the store (checked under StoreSpec)
\* ------------------------------------------------------------------------
UniqueKeys ==
    /\ \A a, b \in 1..Len(languages) :
           languages[a].Name = languages[b].Name => a = b
    /\ \A a, b \in 1..Len(sources) :
           ( /\ sources[a].LanguageID = sources[b].LanguageID
             /\ sources[a].Name = sources[b].Name ) => a = b
    /\ \A a, b \in 1..Len(documents) :
           ( /\ documents[a].SourceID = documents[b].SourceID
             /\ documents[a].Path = documents[b].Path ) => a = b

\* The call just made names a key that a row already had before the call.
DuplicateCall ==
    \/ /\ call'.op = "CreateLanguage"
       /\ \E k \in 1..Len(languages) : languages[k].Name = call'.key[1]
    \/ /\ call'.op = "CreateSource"
       /\ \E k \in 1..Len(sources) :
              /\ sources[k].LanguageID = call'.key[1]
              /\ sources[k].Name = call'.key[2]
    \/ /\ call'.op = "CreateDocument"
       /\ \E k \in 1..Len(documents) :
              /\ documents[k].SourceID = call'.key[1]
              /\ documents[k].Path = call'.key[2]

\* C10: after every create call no two languages share a name, no two
\* sources share (language_id, name) and no two documents share
\* (source_id, path); a call that would duplicate such a key returns an
\* error and leaves the three tables unchanged.
C10_UniqueKeys ==
    [][ /\ UniqueKeys'
        /\ DuplicateCall =>
               /\ call'.err
               /\ UNCHANGED <<languages, sources, documents>> ]_vars

C10_Witness ==
    /\ call.op = "CreateSource"
    /\ call.err
    /\ Len(sources) = 2
    /\ sources[1].Name = sources[2].Name
    /\ Len(languages) = 2
    /\ Len(documents) = 2

\* ------------------------------------------------------------------------
\* Properties of the chunk tables and of the searches
\* ------------------------------------------------------------------------
\* C11: every stored source, document, chunk and embedding references an
\* existing row: a create call that names a parent row that does not exist
\* stores nothing.  (Checked under StoreSpec.)
C11_ReferencesResolve ==
    /\ \A k \in 1..Len(sources) :
           \E l \in 1..Len(languages) : languages[l].ID = sources[k].LanguageID
    /\ \A k \in 1..Len(documents) :
           \E s \in 1..Len(sources) : sources[s].ID = documents[k].SourceID
    /\ \A k \in 1..Len(chunkRows) :
           /\ \E d \in 1..Len(documents) :
                  documents[d].ID = chunkRows[k].DocumentID
           /\ chunkRows[k].ParentChunkID # <<>> =>
                  \E c \in 1..Len(chunkRows) :
                      chunkRows[c].ID = chunkRows[k].ParentChunkID[1]
    /\ \A v \in vec :
           \E c \in 1..Len(chunkRows) : chunkRows[c].ID = v.ChunkID

IDs(list) == {list[i].ID : i \in 1..Len(list)}

\* C12: whatever inserts, updates and deletes have been made on chunks, the
\* row ids of the lexical index are the ids of the chunks table, and a
\* lexical search returns only ids of the chunks table.  (IndexSpec.)
C12_LexicalIndexInSync ==
    /\ {e.rowid : e \in fts} = IDs(chunkRows)
    /\ search.op = "SearchChunksFTS" => IDs(search.out) \subseteq IDs(chunkRows)

\* A row was deleted and the other updated (the update is about to end);
\* a search has found the remaining row.
C12_Witness ==
    /\ IDs(chunkRows) = {2}
    /\ txn.kind = "update"
    /\ txn.fired
    /\ txn.new[1].Content # txn.old[1].Content
    /\ search.op = "SearchChunksFTS"
    /\ IDs(search.out) = {2}

\* C13: a search made while a chunk insert is in flight sees no chunk row
\* without its index entry; of the row being inserted it sees neither the
\* row nor the entry.  (IndexSpec.)
C13_InsertNeverHalfVisible ==
    search.op # "none" =>
        /\ search.rows \subseteq search.index
        /\ search.inflight.kind = "insert" =>
               /\ search.inflight.new[1].ID \notin search.rows
               /\ search.inflight.new[1].ID \notin search.index

\* A search made between the row insert and the trigger, on a table that
\* holds a row.
C13_Witness ==
    /\ search.op = "SearchChunksFTS"
    /\ search.inflight.kind = "insert"
    /\ ~search.inflight.fired
    /\ search.rows # {}
    /\ search.out # <<>>

\* The chunk of that id belongs, through its document and its source, to
\* the language and to no other.
OnlyOfLanguage(id, languageID) ==
    \A k \in 1..Len(chunkRows) :
        chunkRows[k].ID = id =>
            /\ \E d \in 1..Len(documents), s \in 1..Len(sources) :
                   /\ documents[d].ID = chunkRows[k].DocumentID
                   /\ sources[s].ID = documents[d].SourceID
                   /\ sources[s].LanguageID = languageID
            /\ \A d \in 1..Len(documents), s \in 1..Len(sources) :
                   ( /\ documents[d].ID = chunkRows[k].DocumentID
                     /\ sources[s].ID = documents[d].SourceID )
                   => sources[s].LanguageID = languageID

\* C14: a search with a language filter (languageID # 0) returns only
\* chunks of that language, in each of the four searches.  (SearchSpec.)
C14_FilterExcludesOtherLanguages ==
    (search.op # "none" /\ search.languageID # 0) =>
        \A i \in 1..Len(search.out) :
            /\ search.out[i].ID \in IDs(chunkRows)
            /\ OnlyOfLanguage(search.out[i].ID, search.languageID)

\* A hybrid search filtered to language 2 finds a chunk, in a store that
\* holds a matching, embedded chunk of language 1.
C14_Witness ==
    /\ search.op = "SearchChunksHybrid"
    /\ search.text # <<>>
    /\ search.languageID = 2
    /\ search.out # <<>>
    /\ \E k \in 1..Len(chunkRows) :
           /\ chunkRows[k].DocumentID = 1
           /\ chunkRows[k].Content = search.text
           /\ \E v \in vec : v.ChunkID = chunkRows[k].ID /\ v.X = 0

\* The 1-based rank of the id in a list, 0 when the list does not hold it.
RankIn(list, id) ==
    IF id \in IDs(list)
    THEN CHOOSE i \in 1..Len(list) : list[i].ID = id
    ELSE 0

\* The fused score the claim gives the id: the sum over the two lists of
\* 1/(60 + r), a list without the id adding 0.
ClaimedScore(id, vector, lexical) ==
    LET part(list) == IF RankIn(list, id) = 0 THEN <<0, 1>>
                      ELSE <<1, 60 + RankIn(list, id)>>
    IN  RatAdd(part(vector), part(lexical))

\* C15: for a hybrid search with a text that returns no error, every result has Distance
\* 1/score, score being the sum of 1/(60 + r) over the vector and the
\* lexical list; the results are in non-decreasing Distance, without
\* repetition, and they are the best `limit` of the fused candidates.
\* (SearchSpec.)
C15_ReciprocalRankFusion ==
    (search.op = "SearchChunksHybrid" /\ search.text # <<>> /\ ~call.err) =>
        LET ids == IDs(search.vector) \cup IDs(search.lexical)
            score(id) == ClaimedScore(id, search.vector, search.lexical)
            n == Len(search.out)
        IN  /\ \A i \in 1..n :
                   /\ search.out[i].ID \in ids
                   /\ search.out[i].Distance[1] * score(search.out[i].ID)[1]
                          = search.out[i].Distance[2]
                                * score(search.out[i].ID)[2]
            /\ \A i, j \in 1..n :
                   i < j => /\ search.out[i].ID # search.out[j].ID
                            /\ ~RatLess(search.out[j].Distance,
                                        search.out[i].Distance)
            /\ n = IF Cardinality(ids) < search.limit
                   THEN Cardinality(ids) ELSE search.limit
            /\ \A id \in ids \ IDs(search.out) :
                   \A i \in 1..n :
                       ~RatLess(score(search.out[i].ID), score(id))

\* One chunk is in both lists, the other in the vector list only.
C15_Witness ==
    /\ search.op = "SearchChunksHybrid"
    /\ Len(search.vector) = 2
    /\ Len(search.lexical) = 1
    /\ Len(search.out) = 2
    /\ search.out[1].ID = search.vector[2].ID
    /\ RatLess(search.out[1].Distance, search.out[2].Distance)

\* C16: a hybrid search repeated with the same arguments on the same store
\* returns the same list, tied chunks in the same order.  (SearchSpec; a
\* hybrid search that follows a hybrid search is that repetition.)
C16_DeterministicOnTies ==
    [][ ( /\ search.op = "SearchChunksHybrid"
          /\ search'.op = "SearchChunksHybrid"
          /\ search'.queryVec = search.queryVec
          /\ search'.text = search.text
          /\ search'.languageID = search.languageID
          /\ search'.limit = search.limit
          /\ search'.vector = search.vector
          /\ search'.lexical = search.lexical
          /\ UNCHANGED <<catalogVars, indexVars>> )
        => search'.out = search.out ]_vars

\* The embedded chunks of the language, by the joins of the filtered query.
EmbeddedOfLanguage(languageID) ==
    {v \in vec : v.ChunkID \in IDs(chunkRows)
                    /\ OnlyOfLanguage(v.ChunkID, languageID)}

VecRow(id) == CHOOSE v \in vec : v.ChunkID = id

QueryDistance(id) == Distance(VecRow(id), float32ToBytes(search.queryVec))

\* The list holds n of the members of the set, each once, nearest first,
\* and no member left out is nearer than one in the list.
NearestOf(list, set, n) ==
    /\ Len(list) = n
    /\ IDs(list) \subseteq {v.ChunkID : v \in set}
    /\ \A i, j \in 1..Len(list) :
           i < j => /\ list[i].ID # list[j].ID
                    /\ QueryDistance(list[i].ID) <= QueryDistance(list[j].ID)
    /\ \A v \in set :
           v.ChunkID \notin IDs(list) =>
               \A i \in 1..Len(list) :
                   QueryDistance(list[i].ID) <= QueryDistance(v.ChunkID)

Min(a, b) == IF a < b THEN a ELSE b

\* C17, as claimed: a vector search filtered to a language returns the
\* min(limit, N) nearest of the N embedded chunks of that language, nearest
\* first, whatever chunks the other languages hold.  (SearchSpec.)
C17_FilteredNearest ==
    ( /\ search.op \in {"SearchChunksVector", "SearchChunksVectorWithScore"}
      /\ search.languageID # 0 )
    => NearestOf(search.out, EmbeddedOfLanguage(search.languageID),
                 Min(search.limit,
                     Cardinality(EmbeddedOfLanguage(search.languageID))))

\* C17, amended: the search takes the k embedded chunks nearest to the
\* query among all languages (k = limit for SearchChunksVector, 2 * limit
\* for SearchChunksVectorWithScore) and returns, nearest first, the chunks
\* of the language among them, at most limit of them.
C17_FilteredAmongNearest ==
    ( /\ search.op \in {"SearchChunksVector", "SearchChunksVectorWithScore"}
      /\ search.languageID # 0 )
    => LET k == IF search.op = "SearchChunksVector"
                THEN search.limit ELSE 2 * search.limit
       IN  \E top \in SUBSET vec :
               /\ Cardinality(top) = Min(k, Cardinality(vec))
               /\ \A v \in top, w \in vec \ top :
                      QueryDistance(v.ChunkID) <= QueryDistance(w.ChunkID)
               /\ LET mine == top \cap EmbeddedOfLanguage(search.languageID)
                  IN  NearestOf(search.out, mine,
                                Min(search.limit, Cardinality(mine)))

\* A scored search filtered to language 2 returns its chunk although a
\* chunk of language 1 is nearer.
C17_Witness ==
    /\ search.op = "SearchChunksVectorWithScore"
    /\ search.languageID = 2
    /\ search.limit = 1
    /\ Len(search.out) = 1
    /\ search.out[1].Distance = <<1, 1>>
    /\ \E v \in vec : v.X = 0 /\ OnlyOfLanguage(v.ChunkID, 1)

\* C18: a hybrid search with an empty text and no error returns a result of
\* SearchChunksVectorWithScore for the same vector, filter and limit, as it
\* got it; no lexical search is made.  (SearchSpec.)
C18_EmptyTextIsVectorSearch ==
    (search.op = "SearchChunksHybrid" /\ search.text = <<>> /\ ~call.err) =>
        /\ search.out \in
               {WithScoreOut(rows, search.queryVec) :
                   rows \in WithScoreResults(search.queryVec,
                                             search.languageID, search.limit)}
        /\ search.out = search.vector
        /\ search.lexical = <<>>

C18_Witness ==
    /\ search.op = "SearchChunksHybrid"
    /\ search.text = <<>>
    /\ Len(search.out) = 2
    /\ search.out[1].Distance = <<0, 1>>
    /\ search.out[2].Distance = <<1, 1>>

Embedded(id) == \E v \in vec : v.ChunkID = id

\* The text is made of words of the title or of the content of the row.
HasWords(row, text) ==
    Terms(text) \subseteq (Terms(row.Title) \cup Terms(row.Content))

\* C19: the vector searches return only chunks that have an embedding; a
\* lexical search returns every chunk that matches the text (and passes
\* the filter), with or without embedding, unless limit results are
\* returned already; a hybrid search does so for the chunks of its lexical
\* list.  (SearchSpec.)
C19_EmbeddingOnlyForVectorSearch ==
    /\ search.op \in {"SearchChunksVector", "SearchChunksVectorWithScore"} =>
           \A i \in 1..Len(search.out) : Embedded(search.out[i].ID)
    /\ search.op = "SearchChunksFTS" =>
           \A k \in 1..Len(chunkRows) :
               ( /\ HasWords(chunkRows[k], search.text)
                 /\ \/ search.languageID = 0
                    \/ OnlyOfLanguage(chunkRows[k].ID, search.languageID) )
               => \/ chunkRows[k].ID \in IDs(search.out)
                  \/ Len(search.out) = search.limit
    /\ (search.op = "SearchChunksHybrid" /\ search.text # <<>>) =>
           \A i \in 1..Len(search.lexical) :
               \/ search.lexical[i].ID \in IDs(search.out)
               \/ Len(search.out) = search.limit

\* A hybrid search returns a chunk without embedding, found by its title,
\* beside an embedded one.
C19_Witness ==
    /\ search.op = "SearchChunksHybrid"
    /\ search.text = <<"t">>
    /\ Len(search.out) = 2
    /\ ~Embedded(search.out[2].ID)
    /\ Embedded(search.out[1].ID)

\* ------------------------------------------------------------------------
\* Properties of the ingest command (checked under IngestSpec)
\* ------------------------------------------------------------------------
\* C20: when the driver comes to a file whose (source, path) row exists,
\* CreateDocument fails and the file is skipped: from then until the next
\* file is taken up no document, chunk or embedding row is added, whatever
\* the earlier run stored of the document.
C20_ReingestAddsNothing ==
    [][ ingest'.existed =>
            /\ UNCHANGED <<documents, chunkRows, vec>>
            /\ ingest'.file # ingest.file =>
                   /\ call'.op = "CreateDocument"
                   /\ call'.err
                   /\ ingest'.pc = "file" ]_vars

\* The second run has skipped both files; the first run had stored two
\* chunks and one embedding.
C20_Witness ==
    /\ ingest.run = 2
    /\ ingest.pc = "file"
    /\ ingest.file = 2
    /\ ingest.existed
    /\ call.op = "CreateDocument"
    /\ call.err
    /\ Len(documents) = 2
    /\ Len(chunkRows) = 2
    /\ Cardinality(vec) = 1

\* C21: in the store, during and after any ingestion run (runs in which
\* CreateChunk calls fail included), every chunk row that is not a summary
\* has a parent_chunk_id, and it is the id of a chunk row of the same
\* document.
C21_ParentNullOnlyForSummary ==
    \A k \in 1..Len(chunkRows) :
        chunkRows[k].Level # "summary" =>
            /\ chunkRows[k].ParentChunkID # <<>>
            /\ \E j \in 1..Len(chunkRows) :
                   /\ chunkRows[j].ID = chunkRows[k].ParentChunkID[1]
                   /\ chunkRows[j].DocumentID = chunkRows[k].DocumentID

\* C22: StoreEmbedding with a vector whose length is not the configured
\* dimension returns an error and leaves chunks_vec as it was, and every
\* row of chunks_vec holds a vector of the configured dimension (four
\* bytes per coordinate).
C22_DimensionChecked ==
    /\ [](\A v \in vec : v.Bytes = 4 * EmbeddingDim)
    /\ [][(call'.op = "StoreEmbedding" /\ call'.key # <<EmbeddingDim>>)
              => (call'.err /\ vec' = vec)]_vars

\* A vector of three coordinates was refused by a store that holds an
\* embedding.
C22_Witness ==
    /\ call.op = "StoreEmbedding"
    /\ call.key = <<ShortEmbedding.Dim>>
    /\ call.err
    /\ vec # {}

\* ------------------------------------------------------------------------
\* Properties of the lookups
\* ------------------------------------------------------------------------
LookupOps == {"GetLanguage", "GetDocumentByPath"}

\* C23: a lookup that finds no row (GetLanguage for a name no language
\* has, GetDocumentByPath for a source id and path no document has)
\* returns no row and an error for which errors.Is(err, ErrNotFound) is
\* true.
C23_MissIsNotFound ==
    (call.op \in LookupOps /\ call.err) =>
        /\ call.row = <<>>
        /\ ErrorsIs(call.chain, "ErrNotFound")

\* ------------------------------------------------------------------------
\* Properties of the hybrid search: errors, score ranges, limits
\* ------------------------------------------------------------------------
\* C24: SearchChunksHybrid returns an error exactly when its vector search
\* fails (a query vector that is not of the configured dimension) or,
\* being given a text, its lexical search fails (a text the index rejects);
\* with the error it returns no results, also when the other search had
\* some; without error the list is ordered by Distance and holds every
\* candidate of the two lists unless it is `limit` long.
C24_RankedListOrError ==
    search.op = "SearchChunksHybrid" =>
        LET vectorFailed == search.queryVec.Dim # EmbeddingDim
            lexicalFailed == /\ ~vectorFailed
                             /\ search.text = UnterminatedText
            ids == IDs(search.vector) \cup IDs(search.lexical)
            n == Len(search.out)
        IN  /\ call.err <=> (vectorFailed \/ lexicalFailed)
            /\ call.err => search.out = <<>>
            /\ ~call.err =>
                   /\ \A i, j \in 1..n :
                          i < j => ~RatLess(search.out[j].Distance,
                                            search.out[i].Distance)
                   /\ IDs(search.out) \subseteq ids
                   /\ ids \subseteq IDs(search.out) \/ n = search.limit

\* The lexical search failed after the vector search had found a chunk.
C24_Witness ==
    /\ search.op = "SearchChunksHybrid"
    /\ call.err
    /\ search.text = UnterminatedText
    /\ search.vector # <<>>
    /\ search.out = <<>>

\* The largest limit the query tool passes to the search.
MaxQueryLimit == 20

\* For lists of up to MaxQueryLimit entries the sum of two rank terms is
\* larger than every single rank term.
TwoTermsExceedOne ==
    \A r1, r2, r \in 1..MaxQueryLimit :
        RatLess(RRFTerm(r - 1), RatAdd(RRFTerm(r1 - 1), RRFTerm(r2 - 1)))

\* C25: in the result of a hybrid search with a text, a chunk that is in
\* both the vector list and the lexical list comes before every chunk that
\* is in one list only, with a strictly smaller Distance (a strictly higher
\* score), and is never cut off while such a chunk is kept; for lists of up
\* to 20 entries the sum of two rank terms exceeds every single rank term.
C25_BothListsBeatOneList ==
    /\ TwoTermsExceedOne
    /\ (search.op = "SearchChunksHybrid" /\ search.text # <<>> /\ ~call.err)
       => LET both == IDs(search.vector) \cap IDs(search.lexical)
              one == (IDs(search.vector) \cup IDs(search.lexical)) \ both
              at(id) == CHOOSE i \in 1..Len(search.out) :
                            search.out[i].ID = id
          IN  \A a \in both, b \in one :
                  b \in IDs(search.out) =>
                      /\ a \in IDs(search.out)
                      /\ at(a) < at(b)
                      /\ RatLess(search.out[at(a)].Distance,
                                 search.out[at(b)].Distance)

\* The chunk that is second by vector and first by text comes before the
\* chunk that is first by vector and not found by text.
C25_Witness ==
    /\ search.op = "SearchChunksHybrid"
    /\ ~call.err
    /\ Len(search.vector) = 2
    /\ Len(search.lexical) = 1
    /\ search.lexical[1].ID = search.vector[2].ID
    /\ Len(search.out) = 2
    /\ search.out[1].ID = search.vector[2].ID
    /\ search.out[2].ID = search.vector[1].ID

\* C26: every Distance of a result of SearchChunksVectorWithScore or of
\* SearchChunksHybrid (the two searches whose results are displayed as
\* relevance 1 - Distance) is at least 0 and at most 1.
C26_DistanceInUnitRange ==
    search.op \in {"SearchChunksVectorWithScore", "SearchChunksHybrid"} =>
        \A i \in 1..Len(search.out) :
            /\ ~RatLess(search.out[i].Distance, <<0, 1>>)
            /\ ~RatLess(<<1, 1>>, search.out[i].Distance)

\* C30: the list a hybrid search returns, whatever the store holds and for
\* every limit from 0 on, has at most `limit` entries and no chunk id
\* twice; a chunk of both lists is in it once.
C30_NoDuplicateAtMostLimit ==
    search.op = "SearchChunksHybrid" =>
        /\ Len(search.out) <= search.limit
        /\ \A i, j \in 1..Len(search.out) :
               i # j => search.out[i].ID # search.out[j].ID

\* Two chunks are each in both lists and are returned once each.
C30_Witness ==
    /\ search.op = "SearchChunksHybrid"
    /\ search.limit = 2
    /\ Len(search.vector) = 2
    /\ Len(search.lexical) = 2
    /\ IDs(search.vector) = IDs(search.lexical)
    /\ Len(search.out) = 2

\* With limit 0 nothing is returned from a store that has what is asked
\* for.
C30_LimitZeroReached ==
    /\ search.op = "SearchChunksHybrid"
    /\ search.limit = 0
    /\ ~call.err
    /\ vec # {}
    /\ \E e \in fts : Matches(e, search.text)

\* ------------------------------------------------------------------------
\* Properties of the split of an over-budget section (checked under Spec)
\* ------------------------------------------------------------------------
\* The characters of a text that are not white space.
NonSpace(text) == SelectSeq(text, LAMBDA ch : ~IsSpace(ch))

\* The non-space characters of the contents of chunks from..to, in order.
RECURSIVE JoinedContents(_, _)
JoinedContents(from, to) ==
    IF from > to THEN <<>>
    ELSE NonSpace(chunks[from].Content) \o JoinedContents(from + 1, to)

\* The chunks first+1..last are the split of the paragraphs: the chunks can
\* be cut into one run per paragraph, in order, such that the run of a
\* paragraph holds the characters of the paragraph (white space aside),
\* each once and in order, and every chunk of the run but the last ends
\* where a sentence ends.
SplitOf(paragraphs, first, last) ==
    \E cut \in [0..Len(paragraphs) -> first..last] :
        /\ cut[0] = first
        /\ cut[Len(paragraphs)] = last
        /\ \A p \in 1..Len(paragraphs) :
               /\ cut[p - 1] < cut[p]
               /\ JoinedContents(cut[p - 1] + 1, cut[p])
                      = NonSpace(paragraphs[p])
               /\ \A k \in (cut[p - 1] + 1)..(cut[p] - 1) :
                      IsTerminator(Last(chunks[k].Content))

\* C27: a headed section whose trimmed content is over the budget yields a
\* section chunk whose Content is the heading text, followed at once by
\* paragraph chunks only, which hold the text of the section's non-empty
\* paragraphs in order, nothing left out or repeated, every sentence whole
\* in one chunk.  Stated for every section the loop has gone through.
C27_OversizedSectionSplit ==
    \A i \in 1..Len(doc.Sections) :
        ( /\ i < cursor
          /\ doc.Sections[i].Heading # <<>>
          /\ CountTokens(TrimSpace(doc.Sections[i].Content)) > maxTokens )
        => LET first == CHOOSE k \in ChunksOf(i) :
                            \A m \in ChunksOf(i) : k <= m
               last == CHOOSE k \in ChunksOf(i) :
                           \A m \in ChunksOf(i) : m <= k
           IN  /\ ChunksOf(i) # {}
               /\ ChunksOf(i) = first..last
               /\ chunks[first].Level = "section"
               /\ chunks[first].Content = doc.Sections[i].Heading[1].Text
               /\ \A k \in (first + 1)..last : chunks[k].Level = "paragraph"
               /\ SplitOf(splitIntoParagraphs(
                              TrimSpace(doc.Sections[i].Content)),
                          first, last)

\* A section of two paragraphs has been split into its header and three
\* paragraph chunks, the last sentence of the section without terminator.
C27_Witness ==
    /\ pc = "done"
    /\ \E i \in 1..Len(doc.Sections) :
           /\ doc.Sections[i].Heading # <<>>
           /\ Len(splitIntoParagraphs(TrimSpace(doc.Sections[i].Content))) = 2
           /\ Cardinality(ChunksOf(i)) = 4
           /\ \E k \in ChunksOf(i) :
                  /\ k + 1 \notin ChunksOf(i)
                  /\ ~IsTerminator(Last(chunks[k].Content))

\* ------------------------------------------------------------------------
\* Properties of the ingest loop over the chunks of a document
\* ------------------------------------------------------------------------
\* The chunk row with the given id.
RowOf(id) == chunkRows[CHOOSE k \in 1..Len(chunkRows) : chunkRows[k].ID = id]

Position ==
    << ingest.file,
       CASE ingest.pc = "source" -> 0
         [] ingest.pc = "chunk" -> 1
         [] ingest.pc \in {"store", "embed"} -> 2
         [] OTHER -> 3,
       ingest.i,
       IF ingest.pc = "embed" THEN 1 ELSE 0,
       CASE pc = "idle" -> 0 [] pc = "loop" -> 1 [] OTHER -> 2,
       cursor >>

\* Lexicographic order on sequences of numbers of the same length.
LexLess(p, q) ==
    \E k \in 1..Len(p) : p[k] < q[k] /\ \A m \in 1..(k - 1) : p[m] = q[m]

\* While the command runs it has a next step that is no failure, and its
\* position is within the files and the chunks it goes through.
Running ==
    ingest.pc # "idle" =>
        /\ \/ ENABLED (IngestSource \/ IngestDocument \/ IngestChunked
                           \/ IngestCreateChunk \/ IngestStoreEmbedding
                           \/ IngestFileDone \/ IngestReturn)
           \/ /\ ingest.pc = "chunk"
              /\ \/ ENABLED (ChunkSummary \/ ChunkSkipSection \/ ChunkReturn)
                 \/ AtHeadedSection
        /\ ingest.file <= Len(IngestFiles)
        /\ ingest.i <= Len(chunks) \/ ingest.pc \notin {"store", "embed"}
        /\ cursor <= Len(doc.Sections) + 1

\* C29: no failure of CreateChunk, of Embed, of StoreEmbedding or of
\* CreateDocument ends a run of the ingest command.  The loop over the
\* chunks goes from each chunk to the next and is left only after the last
\* chunk; the loop over the files goes from each file to the next; the
\* command returns only after the last file.  The run terminates: every
\* step leads to a state that has a next step unless the command has
\* returned, every step takes the run further, and no position lies beyond
\* the last chunk of the last file.
C29_FailuresDoNotAbort ==
    [][ /\ Running'
        /\ (ingest.pc \in {"store", "embed"} /\ ingest'.i # ingest.i)
               => (ingest'.i = ingest.i + 1 /\ ingest'.pc = "store")
        /\ (ingest.pc \in {"store", "embed"}
                   /\ ingest'.pc \notin {"store", "embed"})
               => (ingest.i = Len(chunks) /\ ingest'.pc = "file")
        /\ (ingest.pc = "file" /\ ingest'.file # ingest.file)
               => ingest'.file = ingest.file + 1
        /\ (ingest.pc # "idle" /\ ingest'.pc = "idle")
               => (ingest.pc = "file" /\ ingest.file = Len(IngestFiles))
        /\ (ingest.pc # "idle" /\ ingest'.pc # "idle")
               => LexLess(Position, Position')
      ]_vars

\* A run has returned in which CreateDocument failed for one file and, for
\* the other, CreateChunk failed for one paragraph and the embedding of the
\* other paragraph failed.
C29_Witness ==
    /\ ingest.pc = "idle"
    /\ ingest.run = 1
    /\ Len(documents) = 1
    /\ Len(chunkRows) = 3
    /\ Cardinality({k \in 1..Len(chunkRows) :
                       chunkRows[k].Level = "paragraph"}) = 1
    /\ vec = {}

=============================================================================
